---- MODULE Spec2Model ----
(***************************************************************************)
(* A model of DBCTool: the change-detection export pipeline (ExportDBC,   *)
(* ExportDBCs), the string block built while encoding (getStringOffset),  *)
(* and the batched import (ImportDBC, createTable, insertRecords).        *)
(*                                                                         *)
(* Three groups of variables, one per pipeline; each specification moves  *)
(* one group and leaves the others at their initial value.                *)
(***************************************************************************)
EXTENDS Integers, Sequences, FiniteSets, TLC

(***************************************************************************)
(* Bounds of the model.                                                    *)
(***************************************************************************)
\* Table contents are 0..MaxContent; content 0 is the empty table.
MaxContent == 2
\* CHECKSUM TABLE values are 0..ChecksumMod-1 (a checksum may collide).
ChecksumMod == 2
\* A .dbc file holds at most MaxRecords records.
MaxRecords == 3
\* ImportDBC is called at most MaxImports times for a table.
MaxImports == 2
\* An exported table holds at most MaxRows rows.
MaxRows == 2
\* A string-block session sees at most MaxCalls getStringOffset calls.
MaxCalls == 4
\* A schema given to the expansion functions has at most MaxFields fields.
MaxFields == 2
\* A table read in sort order has at most MaxTableRows rows.
MaxTableRows == 3

Contents == 0..MaxContent
Tables == {"A", "B"}
\* filepath.Glob returns the meta files in sorted order.
MetaOrder == <<"A", "B">>
Absent == -2
NoTx == <<"no transaction">>
NoHeader == [recordCount |-> -1, fieldCount |-> -1, recordSize |-> -1, stringBlockSize |-> -1]
\* The NULL cell of a text column (no string holds the byte -1).
NULL == <<-1>>
NoEntry == -1
NoFile == -1
NoRows == -1
\* The row of a table no record was inserted into, and the result of an
\* export that did not run.
NoImportedRow == [written |-> FALSE, cells |-> <<>>]
NothingExported == [done |-> FALSE, rec |-> <<>>, block |-> <<>>]

VARIABLES
  \* ---- export of one table: the database and the export directory
  tableContent,   \* content of the SQL table
  checksumEntry,  \* dbc_checksum.checksum of the table, or NoEntry
  outFile,        \* content the exported .dbc was encoded from, or NoFile
  \* ---- export of one table: the running ExportDBC call
  useVersioning,  \* cfg.Options.UseVersioning
  pc,             \* position inside ExportDBC; "idle" before the first call,
                  \* "done" once the call has returned or the process died
  currentCS,      \* ExportDBC's currentCS
  storedCS,       \* ExportDBC's storedCS
  rows,           \* content returned by the SELECT, or NoRows
  frame,          \* what the current ExportDBC call has done so far
  phase,          \* Unknown | Checked | Skipped | Exported | Failed | Crashed
  calls,          \* the last (at most two) calls since the content changed
  \* ---- a bulk run (ImportDBCs, ExportDBCs) over every meta file
  bulkKind,       \* "import" | "export"
  bulkVersioning, \* cfg.Options.UseVersioning of the run
  bulkMetas,      \* the meta files the loop has still to visit
  bulkState,      \* none | running | completed | aborted
  bulkPhase,      \* table -> Unknown | Skipped | Exported | Imported | Failed
  dbTable,        \* table -> content of the SQL table, or Absent
  dbChecksum,     \* table -> dbc_checksum.checksum, or NoEntry
  dbcFile,        \* table -> content of the source .dbc file, or NoFile
  exportFile,     \* table -> content the exported .dbc was encoded from, or NoFile
  \* ---- import of one table (ImportDBC): the inputs
  meta,           \* the MetaFile: fields, primaryKeys, uniqueKeys
  records,        \* dbc.Records as LoadDBC returns them (strings dereferenced)
  dbcPresent,     \* whether the source .dbc file exists
  \* ---- import of one table: the database
  tblExists,      \* whether the destination table exists
  tblRows,        \* the committed rows of the destination table
  rows0,          \* the committed rows when ImportDBC started
  tx,             \* the rows as the open transaction sees them, or NoTx
  \* ---- import of one table: the running ImportDBC call
  ipc,            \* position inside ImportDBC / insertRecords
  start,          \* insertRecords' start
  batchSize,      \* insertRecords' batchSize
  batches,        \* the batches executed so far, as <<start, end>> pairs
  importResult,   \* none | skipped | failed | imported
  importErr,      \* none | meta | load | ddl | begin | duplicate | syntax | storage | commit
  dupReport,      \* the duplicate groups checkUniqueKeys printed
  importCalls,    \* how many times ImportDBC has been called for this table
  exists0,        \* whether the destination table existed when ImportDBC started
  ddlRun,         \* whether this call has executed its CREATE TABLE statement
  insertFailed,   \* an earlier call created the table and failed in insertRecords
  \* ---- one encode session of ExportDBC (the row loop and the header)
  encMeta,        \* meta.Fields of the table being exported
  rowColumns,     \* rows.Columns(): the columns of the result set
  rawRows,        \* the rows scanned so far (column -> cell)
  stringBlock,    \* dbc.StringBlock
  stringOffsets,  \* stringOffsets: string -> offset
  encRecords,     \* dbc.Records
  header,         \* dbc.Header once the row loop has ended, or NoHeader
  callLog,        \* the getStringOffset calls made directly, in order
  \* ---- the functions that expand a schema's fields, applied to one schema
  schema,         \* meta.Fields
  schemaPc,       \* which of the functions have been applied so far
  ddlColumns,     \* createTable: the columns of the CREATE TABLE statement
  ddlError,       \* createTable: whether it returned an error
  insertColumns,  \* insertRecords: columnsBase
  exportRec,      \* ExportDBC: the record built from one row
  recordSize,     \* calculateRecordSize
  fieldCount,     \* calculateFieldCount
  ddlTypes,       \* createTable: the SQL types of ddlColumns
  insertValues,   \* insertRecords: allValues of one record
  importedRow,    \* the row that record's INSERT left in the created table
  readColumns,    \* ExportDBC: the column names it looks up in a row
  reExported,     \* ExportDBC: the record and string block built from importedRow
  \* ---- the ordered read of ExportDBC: ORDER BY, the rows, the records
  sortOrder,      \* meta.SortOrder
  orderClause,    \* buildOrderBy's result: the ORDER BY parts, <<>> for ""
  tableRows,      \* the rows of the table
  resultRows,     \* the rows the query still has to deliver, in its order
  emitted,        \* dbc.Records
  recordCount,    \* dbc.Header.RecordCount
  sortPc          \* position in ExportDBC

exportVars == <<tableContent, checksumEntry, outFile, useVersioning, pc,
                currentCS, storedCS, rows, frame, phase, calls>>

bulkVars == <<bulkKind, bulkVersioning, bulkMetas, bulkState, bulkPhase, dbTable,
              dbChecksum, dbcFile, exportFile>>

importVars == <<meta, records, dbcPresent, tblExists, tblRows, rows0, tx, ipc, start,
                batchSize, batches, importResult, importErr, dupReport, importCalls,
                exists0, ddlRun, insertFailed>>

encodeVars == <<encMeta, rowColumns, rawRows, stringBlock, stringOffsets, encRecords, header,
                callLog>>

schemaVars == <<schema, schemaPc, ddlColumns, ddlError, insertColumns, exportRec,
                recordSize, fieldCount, ddlTypes, insertValues, importedRow, readColumns,
                reExported>>

sortVars == <<sortOrder, orderClause, tableRows, resultRows, emitted, recordCount, sortPc>>

vars == <<exportVars, bulkVars, importVars, encodeVars, schemaVars, sortVars>>

\* What a specification of one pipeline leaves alone.
notExport == <<bulkVars, importVars, encodeVars, schemaVars, sortVars>>
notBulk == <<exportVars, importVars, encodeVars, schemaVars, sortVars>>
notImport == <<exportVars, bulkVars, encodeVars, schemaVars, sortVars>>
notEncode == <<exportVars, bulkVars, importVars, schemaVars, sortVars>>
notSchema == <<exportVars, bulkVars, importVars, encodeVars, sortVars>>
notSort == <<exportVars, bulkVars, importVars, encodeVars, schemaVars>>

(***************************************************************************)
(* Export pipeline: ExportDBC on one table, step by step, with other       *)
(* clients of the database changing the table at any moment.               *)
(***************************************************************************)

\* CHECKSUM TABLE: a function of the table's content; an empty table (and a
\* NULL checksum) gives 0.
TableChecksum(content) == content % ChecksumMod

\* getStoredChecksum: no row or a NULL checksum reads as 0.
StoredValue(entry) == IF entry = NoEntry THEN 0 ELSE entry

\* ensureChecksumEntry: create the entry with checksum 0 if it is absent.
EnsureChecksumEntry(entry) == IF entry = NoEntry THEN 0 ELSE entry

\* The skip test of ExportDBC.
ShouldSkip_IgnoreVersioning(cur, sto, ver) == cur = sto
ShouldSkip(cur, sto, ver) == (cur = sto) /\ ver

\* Where ExportDBC goes after WriteDBC returned.
AfterWrite_IgnoreError(ok) == "update"
AfterWrite(ok) == IF ok THEN "update" ELSE "error"

\* The checksum updateChecksum is called with.
ChecksumToStore_Stored(cur, sto) == sto
ChecksumToStore(cur, sto) == cur

NewFrame(entry) ==
  [compared |-> FALSE, equal |-> FALSE, read |-> FALSE, wrote |-> FALSE,
   updated |-> FALSE, dirty |-> FALSE, entry0 |-> StoredValue(entry)]

CallRecord(f, outcome) ==
  [ver |-> useVersioning, outcome |-> outcome, compared |-> f.compared,
   equal |-> f.equal, wrote |-> f.wrote, updated |-> f.updated]

LastTwo(s) == IF Len(s) > 2 THEN Tail(s) ELSE s

\* ExportDBC returns (or the process dies) with `outcome`; f is its frame.
Return(outcome, f) ==
  /\ pc' = "done"
  /\ phase' = outcome
  /\ frame' = f
  /\ calls' = IF f.dirty THEN <<>> ELSE LastTwo(Append(calls, CallRecord(f, outcome)))

\* handleExport calls ExportDBC, with versioning as configured or switched
\* off by --force.
StartRun ==
  /\ UNCHANGED notExport
  /\ pc \in {"idle", "done"}
  /\ useVersioning' \in BOOLEAN
  /\ pc' = "ensure"
  /\ phase' = "Unknown"
  /\ frame' = NewFrame(checksumEntry)
  /\ currentCS' = 0
  /\ storedCS' = 0
  /\ rows' = NoRows
  /\ UNCHANGED <<tableContent, checksumEntry, outFile, calls>>

\* LoadMeta, ensureChecksumTable, ensureChecksumEntry.
Ensure ==
  /\ UNCHANGED notExport
  /\ pc = "ensure"
  /\ \/ /\ checksumEntry' = EnsureChecksumEntry(checksumEntry)
        /\ pc' = "checksum"
        /\ UNCHANGED <<frame, phase, calls>>
     \/ /\ Return("Failed", frame)
        /\ UNCHANGED checksumEntry
  /\ UNCHANGED <<tableContent, outFile, useVersioning, currentCS, storedCS, rows>>

GetTableChecksum ==
  /\ UNCHANGED notExport
  /\ pc = "checksum"
  /\ \/ /\ currentCS' = TableChecksum(tableContent)
        /\ pc' = "stored"
        /\ UNCHANGED <<frame, phase, calls>>
     \/ /\ Return("Failed", frame)
        /\ UNCHANGED currentCS
  /\ UNCHANGED <<tableContent, checksumEntry, outFile, useVersioning, storedCS, rows>>

GetStoredChecksum ==
  /\ UNCHANGED notExport
  /\ pc = "stored"
  /\ \/ /\ storedCS' = StoredValue(checksumEntry)
        /\ pc' = "compare"
        /\ UNCHANGED <<frame, phase, calls>>
     \/ /\ Return("Failed", frame)
        /\ UNCHANGED storedCS
  /\ UNCHANGED <<tableContent, checksumEntry, outFile, useVersioning, currentCS, rows>>

Compare ==
  /\ UNCHANGED notExport
  /\ pc = "compare"
  /\ LET f == [frame EXCEPT !.compared = TRUE, !.equal = (currentCS = storedCS)]
     IN IF ShouldSkip(currentCS, storedCS, useVersioning)
          THEN Return("Skipped", f)
          ELSE /\ frame' = f
               /\ pc' = "query"
               /\ phase' = "Checked"
               /\ UNCHANGED calls
  /\ UNCHANGED <<tableContent, checksumEntry, outFile, useVersioning, currentCS,
                 storedCS, rows>>

\* db.Query and rows.Columns.
Query ==
  /\ UNCHANGED notExport
  /\ pc = "query"
  /\ \/ /\ rows' = tableContent
        /\ frame' = [frame EXCEPT !.read = TRUE]
        /\ pc' = "scan"
        /\ UNCHANGED <<phase, calls>>
     \/ /\ Return("Failed", frame)
        /\ UNCHANGED rows
  /\ UNCHANGED <<tableContent, checksumEntry, outFile, useVersioning, currentCS, storedCS>>

\* The rows.Next / rows.Scan loop that builds the records.
Scan ==
  /\ UNCHANGED notExport
  /\ pc = "scan"
  /\ \/ /\ pc' = "mkdir"
        /\ UNCHANGED <<frame, phase, calls>>
     \/ Return("Failed", frame)
  /\ UNCHANGED <<tableContent, checksumEntry, outFile, useVersioning, currentCS,
                 storedCS, rows>>

\* os.MkdirAll of the export directory.
Mkdir ==
  /\ UNCHANGED notExport
  /\ pc = "mkdir"
  /\ \/ /\ pc' = "write"
        /\ UNCHANGED <<frame, phase, calls>>
     \/ Return("Failed", frame)
  /\ UNCHANGED <<tableContent, checksumEntry, outFile, useVersioning, currentCS,
                 storedCS, rows>>

\* WriteDBC: on success the file holds the encoding of the rows read.
Write ==
  /\ UNCHANGED notExport
  /\ pc = "write"
  /\ \E ok \in BOOLEAN :
       /\ outFile' = IF ok THEN rows ELSE outFile
       /\ IF AfterWrite(ok) = "update"
            THEN /\ frame' = [frame EXCEPT !.wrote = ok]
                 /\ pc' = "update"
                 /\ UNCHANGED <<phase, calls>>
            ELSE Return("Failed", frame)
  /\ UNCHANGED <<tableContent, checksumEntry, useVersioning, currentCS, storedCS, rows>>

\* updateChecksum, then ExportDBC returns nil.
Update ==
  /\ UNCHANGED notExport
  /\ pc = "update"
  /\ \/ /\ checksumEntry' = ChecksumToStore(currentCS, storedCS)
        /\ Return("Exported", [frame EXCEPT !.updated = TRUE])
     \/ /\ Return("Failed", frame)
        /\ UNCHANGED checksumEntry
  /\ UNCHANGED <<tableContent, outFile, useVersioning, currentCS, storedCS, rows>>

\* The process dies between two steps of ExportDBC.
Crash ==
  /\ UNCHANGED notExport
  /\ pc \notin {"idle", "done"}
  /\ Return("Crashed", frame)
  /\ UNCHANGED <<tableContent, checksumEntry, outFile, useVersioning, currentCS,
                 storedCS, rows>>

\* Another client of the database changes the table (at any moment).
ModifyTable ==
  /\ UNCHANGED notExport
  /\ \E c \in Contents :
       /\ c # tableContent
       /\ tableContent' = c
  /\ calls' = <<>>
  /\ frame' = IF pc \notin {"idle", "done"} THEN [frame EXCEPT !.dirty = TRUE] ELSE frame
  /\ UNCHANGED <<checksumEntry, outFile, useVersioning, pc, currentCS, storedCS,
                 rows, phase>>

ExportIdle ==
  /\ tableContent = 0
  /\ checksumEntry = NoEntry
  /\ outFile = NoFile
  /\ useVersioning = TRUE
  /\ pc = "idle"
  /\ currentCS = 0
  /\ storedCS = 0
  /\ rows = NoRows
  /\ frame = NewFrame(NoEntry)
  /\ phase = "Unknown"
  /\ calls = <<>>

BulkIdle ==
  /\ bulkKind = "export"
  /\ bulkVersioning = TRUE
  /\ bulkMetas = <<>>
  /\ bulkState = "none"
  /\ bulkPhase = [t \in Tables |-> "Unknown"]
  /\ dbTable = [t \in Tables |-> Absent]
  /\ dbChecksum = [t \in Tables |-> NoEntry]
  /\ dbcFile = [t \in Tables |-> NoFile]
  /\ exportFile = [t \in Tables |-> NoFile]

ImportIdle ==
  /\ meta = [fields |-> <<>>, primaryKeys |-> <<>>, uniqueKeys |-> <<>>]
  /\ records = <<>>
  /\ dbcPresent = FALSE
  /\ tblExists = FALSE
  /\ tblRows = {}
  /\ rows0 = {}
  /\ tx = NoTx
  /\ ipc = "idle"
  /\ start = 0
  /\ batchSize = 0
  /\ batches = <<>>
  /\ importResult = "none"
  /\ importErr = "none"
  /\ dupReport = {}
  /\ importCalls = 0
  /\ exists0 = FALSE
  /\ ddlRun = FALSE
  /\ insertFailed = FALSE

EncodeIdle ==
  /\ encMeta = <<>>
  /\ rowColumns = {}
  /\ rawRows = <<>>
  /\ stringBlock = <<>>
  /\ stringOffsets = <<>>
  /\ encRecords = <<>>
  /\ header = NoHeader
  /\ callLog = <<>>

SchemaIdle ==
  /\ schema = <<>>
  /\ schemaPc = "idle"
  /\ ddlColumns = <<>>
  /\ ddlError = FALSE
  /\ insertColumns = <<>>
  /\ exportRec = <<>>
  /\ recordSize = 0
  /\ fieldCount = 0
  /\ ddlTypes = <<>>
  /\ insertValues = <<>>
  /\ importedRow = NoImportedRow
  /\ readColumns = {}
  /\ reExported = NothingExported

SortIdle ==
  /\ sortOrder = <<>>
  /\ orderClause = <<>>
  /\ tableRows = {}
  /\ resultRows = <<>>
  /\ emitted = <<>>
  /\ recordCount = 0
  /\ sortPc = "idle"

ExportInit ==
  /\ tableContent \in Contents
  /\ checksumEntry = NoEntry
  /\ outFile = NoFile
  /\ useVersioning = TRUE
  /\ pc = "idle"
  /\ currentCS = 0
  /\ storedCS = 0
  /\ rows = NoRows
  /\ frame = NewFrame(NoEntry)
  /\ phase = "Unknown"
  /\ calls = <<>>
  /\ BulkIdle
  /\ ImportIdle
  /\ EncodeIdle
  /\ SchemaIdle
  /\ SortIdle

ExportNext ==
  \/ StartRun
  \/ Ensure
  \/ GetTableChecksum
  \/ GetStoredChecksum
  \/ Compare
  \/ Query
  \/ Scan
  \/ Mkdir
  \/ Write
  \/ Update
  \/ Crash
  \/ ModifyTable

SpecExport == ExportInit /\ [][ExportNext]_vars

(***************************************************************************)
(* Bulk runs: ImportDBCs and ExportDBCs loop over the meta files; each     *)
(* ImportDBC / ExportDBC call is one step of the loop.                     *)
(***************************************************************************)

ExportFailPoints ==
  {"none", "ensure", "checksum", "stored", "query", "scan", "mkdir", "write", "update"}
ImportFailPoints == {"none", "meta", "load", "create", "insert"}

\* ExportDBC as a whole on a table (tbl: its content or Absent, entry: its
\* dbc_checksum row, file: its exported file) with the first failing step
\* given: the outcome and what it leaves behind.
ExportDBCResult(tbl, entry, file, ver, failAt) ==
  LET ensured == IF failAt = "ensure" THEN entry ELSE EnsureChecksumEntry(entry)
      cur == IF tbl = Absent THEN 0 ELSE TableChecksum(tbl)
      sto == StoredValue(ensured)
  IN IF failAt \in {"ensure", "checksum", "stored"}
       THEN [outcome |-> "Failed", entry |-> ensured, file |-> file]
     ELSE IF ShouldSkip(cur, sto, ver)
       THEN [outcome |-> "Skipped", entry |-> ensured, file |-> file]
     ELSE IF tbl = Absent \/ failAt \in {"query", "scan", "mkdir"}
       THEN [outcome |-> "Failed", entry |-> ensured, file |-> file]
     ELSE IF AfterWrite(failAt # "write") # "update"
       THEN [outcome |-> "Failed", entry |-> ensured, file |-> file]
     ELSE IF failAt = "update"
       THEN [outcome |-> "Failed", entry |-> ensured, file |-> tbl]
     ELSE [outcome |-> "Exported", entry |-> ChecksumToStore(cur, sto), file |-> tbl]

\* ImportDBC as a whole: the outcome and the table it leaves behind.
ImportDBCResult(tbl, src, failAt) ==
  IF failAt = "meta" THEN [outcome |-> "Failed", tbl |-> tbl]
  ELSE IF src = NoFile THEN [outcome |-> "Skipped", tbl |-> tbl]
  ELSE IF tbl # Absent THEN [outcome |-> "Skipped", tbl |-> tbl]
  ELSE IF failAt \in {"load", "create"} THEN [outcome |-> "Failed", tbl |-> tbl]
  ELSE IF failAt = "insert" /\ src # 0 THEN [outcome |-> "Failed", tbl |-> 0]
  ELSE [outcome |-> "Imported", tbl |-> src]

\* ImportDBCs / ExportDBCs: an error of one table is returned at once.
LoopAfter(outcome, rest) ==
  IF outcome = "Failed" THEN [state |-> "aborted", metas |-> <<>>]
  ELSE IF rest = <<>> THEN [state |-> "completed", metas |-> <<>>]
  ELSE [state |-> "running", metas |-> rest]

\* handleImport / handleExport without --name.
StartBulk ==
  /\ UNCHANGED notBulk
  /\ bulkState # "running"
  /\ bulkKind' \in {"import", "export"}
  /\ bulkVersioning' \in BOOLEAN
  /\ bulkMetas' = MetaOrder
  /\ bulkState' = "running"
  /\ bulkPhase' = [t \in Tables |-> "Unknown"]
  /\ UNCHANGED <<dbTable, dbChecksum, dbcFile, exportFile>>

ExportDBCsStep ==
  /\ UNCHANGED notBulk
  /\ bulkState = "running"
  /\ bulkKind = "export"
  /\ LET t == Head(bulkMetas) IN
     \E failAt \in ExportFailPoints :
       LET r == ExportDBCResult(dbTable[t], dbChecksum[t], exportFile[t],
                                bulkVersioning, failAt)
           l == LoopAfter(r.outcome, Tail(bulkMetas))
       IN /\ dbChecksum' = [dbChecksum EXCEPT ![t] = r.entry]
          /\ exportFile' = [exportFile EXCEPT ![t] = r.file]
          /\ bulkPhase' = [bulkPhase EXCEPT ![t] = r.outcome]
          /\ bulkState' = l.state
          /\ bulkMetas' = l.metas
  /\ UNCHANGED <<bulkKind, bulkVersioning, dbTable, dbcFile>>

ImportDBCsStep ==
  /\ UNCHANGED notBulk
  /\ bulkState = "running"
  /\ bulkKind = "import"
  /\ LET t == Head(bulkMetas) IN
     \E failAt \in ImportFailPoints :
       LET r == ImportDBCResult(dbTable[t], dbcFile[t], failAt)
           l == LoopAfter(r.outcome, Tail(bulkMetas))
       IN /\ dbTable' = [dbTable EXCEPT ![t] = r.tbl]
          /\ bulkPhase' = [bulkPhase EXCEPT ![t] = r.outcome]
          /\ bulkState' = l.state
          /\ bulkMetas' = l.metas
  /\ UNCHANGED <<bulkKind, bulkVersioning, dbChecksum, dbcFile, exportFile>>

\* Between runs the tables are edited by other clients of the database.
EditTable ==
  /\ UNCHANGED notBulk
  /\ bulkState # "running"
  /\ \E t \in Tables, c \in Contents :
       /\ dbTable[t] \notin {Absent, c}
       /\ dbTable' = [dbTable EXCEPT ![t] = c]
  /\ UNCHANGED <<bulkKind, bulkVersioning, bulkMetas, bulkState, bulkPhase,
                 dbChecksum, dbcFile, exportFile>>

BulkInit ==
  /\ bulkKind = "import"
  /\ bulkVersioning = TRUE
  /\ bulkMetas = <<>>
  /\ bulkState = "none"
  /\ bulkPhase = [t \in Tables |-> "Unknown"]
  /\ dbTable \in [Tables -> {Absent} \cup Contents]
  /\ dbChecksum = [t \in Tables |-> NoEntry]
  /\ dbcFile \in [Tables -> {NoFile} \cup Contents]
  /\ exportFile = [t \in Tables |-> NoFile]
  /\ ExportIdle
  /\ ImportIdle
  /\ EncodeIdle
  /\ SchemaIdle
  /\ SortIdle

BulkNext ==
  \/ StartBulk
  \/ ExportDBCsStep
  \/ ImportDBCsStep
  \/ EditTable

SpecBulk == BulkInit /\ [][BulkNext]_vars

(***************************************************************************)
(* Import pipeline: ImportDBC on one table, createTable, and the batched   *)
(* upsert of insertRecords inside one transaction.                         *)
(***************************************************************************)

\* len(locLangs): 16 locale columns and the flags column.
NumLocColumns == 17
\* insertRecords: maxPlaceholders.
MaxPlaceholders == 60000
\* insertRecords: the cap on batchSize.
MaxBatchRows == 2000

KnownTypes == {"int32", "uint32", "float", "string", "Loc"}

\* The field every modelled schema starts with, and the fields that may follow.
BaseFields ==
  << [name |-> "ID", type |-> "int32", count |-> 0],
     [name |-> "Name", type |-> "string", count |-> 0] >>
ExtraFields ==
  { <<>>,
    << [name |-> "Data", type |-> "uint32", count |-> 1] >>,
    << [name |-> "Text", type |-> "Loc", count |-> 3] >>,
    << [name |-> "Data", type |-> "uint32", count |-> 20000] >>,
    << [name |-> "Data", type |-> "uint32", count |-> 30000] >>,
    << [name |-> "Data", type |-> "uint32", count |-> 60001] >>,
    << [name |-> "Flag", type |-> "bool", count |-> 0] >> }
Metas ==
  { [fields |-> BaseFields \o x, primaryKeys |-> pk, uniqueKeys |-> uk] :
      x \in ExtraFields,
      pk \in { <<>>, <<"ID">> },
      uk \in { <<>>, << <<>>, <<"Name">> >> } }

\* A record of the file: the value of ID and the string Name points at (the
\* further fields hold the same value in every record).
RecordValues == [ID : {1, 2}, Name : {"a", "b"}]
RECURSIVE SeqsUpTo(_, _)
SeqsUpTo(S, n) ==
  IF n = 0 THEN { <<>> }
  ELSE LET shorter == SeqsUpTo(S, n - 1)
       IN shorter \cup { Append(s, x) : s \in { t \in shorter : Len(t) = n - 1 }, x \in S }

\* repeat := int(field.Count); if repeat == 0 { repeat = 1 }
Repeat(field) == IF field.count = 0 THEN 1 ELSE field.count

\* The columns insertRecords appends to columnsBase for one repetition of a
\* field (a field of an unknown type appends none).
ColumnsOfType(type) ==
  IF type \in {"int32", "uint32", "float", "string"} THEN 1
  ELSE IF type = "Loc" THEN NumLocColumns
  ELSE 0

\* len(columnsBase)
RECURSIVE ColumnsPerRow(_)
ColumnsPerRow(fields) ==
  IF fields = <<>> THEN 0
  ELSE Repeat(Head(fields)) * ColumnsOfType(Head(fields).type) + ColumnsPerRow(Tail(fields))

\* batchSize := maxPlaceholders / colsPerRow, capped.
BatchSize_NoCap(colsPerRow) == MaxPlaceholders \div colsPerRow
BatchSize(colsPerRow) ==
  LET b == MaxPlaceholders \div colsPerRow
  IN IF b > MaxBatchRows THEN MaxBatchRows ELSE b

\* createTable: the primary key defaults to `ID`.
PrimaryKey(m) == IF Len(m.primaryKeys) > 0 THEN m.primaryKeys ELSE <<"ID">>

\* createTable: PRIMARY KEY first, then one UNIQUE KEY per non-empty group.
UniqueIndexes(m) ==
  <<PrimaryKey(m)>> \o SelectSeq(m.uniqueKeys, LAMBDA uk : Len(uk) > 0)

\* createTable fails on a field of an unknown type.
HasUnknownType(m) == \E i \in 1..Len(m.fields) : m.fields[i].type \notin KnownTypes

KeyOf(row, cols) == [i \in 1..Len(cols) |-> row[cols[i]]]

\* The rows of `table` that collide with `row` on index `cols`.
Colliding(table, row, cols) == { r \in table : KeyOf(r, cols) = KeyOf(row, cols) }

\* INSERT ... ON DUPLICATE KEY UPDATE col=VALUES(col) for every column, one
\* row: without a collision the row is inserted; otherwise the row colliding
\* on the first violated index is overwritten with every value of the new
\* row, which fails (duplicate entry) when the overwritten row then collides
\* with another row on another index.
UpsertRow(table, row, indexes) ==
  LET hit == { i \in 1..Len(indexes) : Colliding(table, row, indexes[i]) # {} }
  IN IF hit = {} THEN [ok |-> TRUE, rows |-> table \cup {row}]
     ELSE LET first == CHOOSE i \in hit : \A j \in hit : i <= j
              old == CHOOSE r \in Colliding(table, row, indexes[first]) : TRUE
              rest == table \ {old}
          IN IF \E i \in 1..Len(indexes) : Colliding(rest, row, indexes[i]) # {}
               THEN [ok |-> FALSE, rows |-> table]
               ELSE [ok |-> TRUE, rows |-> rest \cup {row}]

\* One multi-row statement: the rows in order; the statement fails as a whole.
RECURSIVE UpsertBatch(_, _, _)
UpsertBatch(table, batch, indexes) ==
  IF batch = <<>> THEN [ok |-> TRUE, rows |-> table]
  ELSE LET one == UpsertRow(table, Head(batch), indexes)
       IN IF one.ok THEN UpsertBatch(one.rows, Tail(batch), indexes)
          ELSE [ok |-> FALSE, rows |-> table]

\* defer tx.Rollback(): what the table holds once the transaction is rolled
\* back.
AfterRollback_KeepsPending(committed, pending) == pending
AfterRollback(committed, pending) == committed

\* ImportDBC returns.
ImportReturn(result, err) ==
  /\ ipc' = "done"
  /\ importResult' = result
  /\ importErr' = err

\* The errors insertRecords returns.
InsertErrors == {"begin", "duplicate", "syntax", "storage", "commit"}

\* handleImport calls ImportDBC (again, when the command is re-run): LoadMeta,
\* then os.Stat of the .dbc file.
StartImport ==
  /\ UNCHANGED notImport
  /\ ipc \in {"idle", "done"}
  /\ importCalls < MaxImports
  /\ importCalls' = importCalls + 1
  /\ insertFailed' = (insertFailed \/ (importResult = "failed" /\ importErr \in InsertErrors
                                        /\ ~exists0))
  /\ rows0' = tblRows
  /\ exists0' = tblExists
  /\ ddlRun' = FALSE
  /\ start' = 0
  /\ batchSize' = 0
  /\ batches' = <<>>
  /\ dupReport' = {}
  /\ \/ ImportReturn("failed", "meta")
     \/ /\ ~dbcPresent
        /\ ImportReturn("skipped", "none")
     \/ /\ dbcPresent
        /\ ipc' = "exists"
        /\ importResult' = "none"
        /\ importErr' = "none"
  /\ UNCHANGED <<meta, records, dbcPresent, tblExists, tblRows, tx>>

\* tableExists: a query error is logged and reads as "does not exist".
TableExists ==
  /\ UNCHANGED notImport
  /\ ipc = "exists"
  /\ \E queryFails \in BOOLEAN :
       IF tblExists /\ ~queryFails
         THEN ImportReturn("skipped", "none")
         ELSE /\ ipc' = "load"
              /\ UNCHANGED <<importResult, importErr>>
  /\ UNCHANGED <<meta, records, dbcPresent, tblExists, tblRows, rows0, tx, start,
                 batchSize, batches, dupReport, importCalls, exists0, ddlRun, insertFailed>>

\* LoadDBC.
LoadDBC ==
  /\ UNCHANGED notImport
  /\ ipc = "load"
  /\ \/ ImportReturn("failed", "load")
     \/ /\ ipc' = "audit"
        /\ UNCHANGED <<importResult, importErr>>
  /\ UNCHANGED <<meta, records, dbcPresent, tblExists, tblRows, rows0, tx, start,
                 batchSize, batches, dupReport, importCalls, exists0, ddlRun, insertFailed>>

\* fmt.Sprintf("%v", val), or the sentinel for a record without the column.
KeyPart(rec, col) == IF col \in DOMAIN rec THEN ToString(rec[col]) ELSE "<MISSING>"

\* strings.Join(keyParts, ":")
RECURSIVE KeyString_NoSeparator(_, _)
KeyString_NoSeparator(rec, uk) ==
  IF uk = <<>> THEN ""
  ELSE KeyPart(rec, Head(uk)) \o KeyString_NoSeparator(rec, Tail(uk))
RECURSIVE KeyString(_, _)
KeyString(rec, uk) ==
  IF Len(uk) = 1 THEN KeyPart(rec, Head(uk))
  ELSE KeyPart(rec, Head(uk)) \o ":" \o KeyString(rec, Tail(uk))

\* seen: key string -> the indices (from 0) of the records with that key.
Seen(recs, uk) ==
  [k \in { KeyString(recs[n], uk) : n \in 1..Len(recs) } |->
     { n - 1 : n \in { m \in 1..Len(recs) : KeyString(recs[m], uk) = k } }]

\* What checkUniqueKeys prints: for every non-empty unique key (numbered
\* from 0) the index lists with more than one entry.
DuplicateReport(recs, uniqueKeys) ==
  UNION { IF uniqueKeys[i] = <<>> THEN {}
          ELSE { [key |-> i - 1, indices |-> Seen(recs, uniqueKeys[i])[k]] :
                   k \in { x \in DOMAIN Seen(recs, uniqueKeys[i]) :
                             Cardinality(Seen(recs, uniqueKeys[i])[x]) > 1 } } :
          i \in 1..Len(uniqueKeys) }

\* checkUniqueKeys has no result: ImportDBC goes on to createTable.
AfterAudit_Blocking(report) == IF report = {} THEN "create" ELSE "done"
AfterAudit(report) == "create"

\* checkUniqueKeys(dbc.Records, &meta, tableName)
CheckUniqueKeys ==
  /\ UNCHANGED notImport
  /\ ipc = "audit"
  /\ dupReport' = DuplicateReport(records, meta.uniqueKeys)
  /\ ipc' = AfterAudit(dupReport')
  /\ UNCHANGED <<meta, records, dbcPresent, tblExists, tblRows, rows0, tx, start,
                 batchSize, batches, importResult, importErr, importCalls, exists0, ddlRun,
                 insertFailed>>

\* createTable: CREATE TABLE IF NOT EXISTS, outside any transaction.
CreateTable ==
  /\ UNCHANGED notImport
  /\ ipc = "create"
  /\ \/ /\ ImportReturn("failed", "ddl")
        /\ UNCHANGED <<tblExists, ddlRun>>
     \/ /\ ~HasUnknownType(meta)
        /\ tblExists' = TRUE
        /\ ddlRun' = TRUE
        /\ ipc' = "begin"
        /\ UNCHANGED <<importResult, importErr>>
  /\ UNCHANGED <<meta, records, dbcPresent, tblRows, rows0, tx, start, batchSize, batches,
                 dupReport, importCalls, exists0, insertFailed>>

\* insertRecords up to the batch loop: nothing to do for no records,
\* otherwise db.Begin and the batch size.
Begin ==
  /\ UNCHANGED notImport
  /\ ipc = "begin"
  /\ \/ /\ Len(records) = 0
        /\ ImportReturn("imported", "none")
        /\ UNCHANGED <<tx, start, batchSize>>
     \/ /\ Len(records) > 0
        /\ ImportReturn("failed", "begin")
        /\ UNCHANGED <<tx, start, batchSize>>
     \/ /\ Len(records) > 0
        /\ tx' = tblRows
        /\ batchSize' = BatchSize(ColumnsPerRow(meta.fields))
        /\ start' = 0
        /\ ipc' = "batch"
        /\ UNCHANGED <<importResult, importErr>>
  /\ UNCHANGED <<meta, records, dbcPresent, tblExists, tblRows, rows0, batches, dupReport, importCalls, exists0, ddlRun, insertFailed>>

\* One iteration of the batch loop: tx.Exec of the multi-row upsert. An error
\* returns, and the deferred tx.Rollback runs.
ExecBatch ==
  /\ UNCHANGED notImport
  /\ ipc = "batch"
  /\ start < Len(records)
  /\ LET total == Len(records)
         end == IF start + batchSize > total THEN total ELSE start + batchSize
         batch == SubSeq(records, start + 1, end)
         res == UpsertBatch(tx, batch, UniqueIndexes(meta))
         err == IF batch = <<>> THEN "syntax"
                ELSE IF ~res.ok THEN "duplicate" ELSE "none"
     IN \/ /\ err = "none"
           /\ tx' = res.rows
           /\ start' = start + batchSize
           /\ batches' = Append(batches, <<start, end>>)
           /\ UNCHANGED <<ipc, importResult, importErr, tblRows>>
        \/ /\ ImportReturn("failed", IF err = "none" THEN "storage" ELSE err)
           /\ tblRows' = AfterRollback(tblRows, tx)
           /\ tx' = NoTx
           /\ UNCHANGED <<start, batches>>
  /\ UNCHANGED <<meta, records, dbcPresent, tblExists, rows0, batchSize, dupReport, importCalls, exists0, ddlRun, insertFailed>>

\* tx.Commit after the last batch.
Commit ==
  /\ UNCHANGED notImport
  /\ ipc = "batch"
  /\ start >= Len(records)
  /\ \/ /\ tblRows' = tx
        /\ ImportReturn("imported", "none")
     \/ /\ tblRows' = AfterRollback(tblRows, tx)
        /\ ImportReturn("failed", "commit")
  /\ tx' = NoTx
  /\ UNCHANGED <<meta, records, dbcPresent, tblExists, rows0, start, batchSize, batches, dupReport, importCalls, exists0, ddlRun, insertFailed>>

ImportInit ==
  /\ meta \in Metas
  /\ records \in SeqsUpTo(RecordValues, MaxRecords)
  /\ dbcPresent \in BOOLEAN
  /\ tblExists \in BOOLEAN
  /\ tblRows \in IF tblExists THEN { {}, {[ID |-> 1, Name |-> "b"]} } ELSE { {} }
  /\ rows0 = {}
  /\ tx = NoTx
  /\ ipc = "idle"
  /\ start = 0
  /\ batchSize = 0
  /\ batches = <<>>
  /\ importResult = "none"
  /\ importErr = "none"
  /\ dupReport = {}
  /\ importCalls = 0
  /\ exists0 = FALSE
  /\ ddlRun = FALSE
  /\ insertFailed = FALSE
  /\ ExportIdle
  /\ BulkIdle
  /\ EncodeIdle
  /\ SchemaIdle
  /\ SortIdle

ImportNext ==
  \/ StartImport
  \/ TableExists
  \/ LoadDBC
  \/ CheckUniqueKeys
  \/ CreateTable
  \/ Begin
  \/ ExecBatch
  \/ Commit

SpecImport == ImportInit /\ [][ImportNext]_vars

\* checkUniqueKeys on its own: records of two number columns and unique keys
\* over one or two columns, one of them a column no record has.
AuditMetas ==
  { [fields |-> << [name |-> "ID", type |-> "int32", count |-> 0],
                   [name |-> "Kind", type |-> "uint32", count |-> 0] >>,
     primaryKeys |-> <<"ID">>, uniqueKeys |-> uk] :
      uk \in { <<>>,
               << <<"ID">> >>,
               << <<>>, <<"ID", "Kind">> >>,
               << <<"Kind", "ID">>, <<"Gone">> >>,
               << <<"Kind", "Gone">>, <<"Kind">> >> } }
AuditRecordValues == [ID : {1, 11}, Kind : {1, 11}]

AuditInit ==
  /\ meta \in AuditMetas
  /\ records \in SeqsUpTo(AuditRecordValues, MaxRecords)
  /\ dbcPresent = TRUE
  /\ tblExists = FALSE
  /\ tblRows = {}
  /\ rows0 = {}
  /\ tx = NoTx
  /\ ipc = "audit"
  /\ start = 0
  /\ batchSize = 0
  /\ batches = <<>>
  /\ importResult = "none"
  /\ importErr = "none"
  /\ dupReport = {}
  /\ importCalls = 0
  /\ exists0 = FALSE
  /\ ddlRun = FALSE
  /\ insertFailed = FALSE
  /\ ExportIdle
  /\ BulkIdle
  /\ EncodeIdle
  /\ SchemaIdle
  /\ SortIdle

AuditNext == CheckUniqueKeys

SpecAudit == AuditInit /\ [][AuditNext]_vars

(***************************************************************************)
(* Encoding: the row loop of ExportDBC, which turns each row into a record *)
(* and interns its strings in the string block, and the header.            *)
(***************************************************************************)

locLangs ==
  << "enUS", "koKR", "frFR", "deDE", "zhCN", "zhTW", "esES", "esMX", "ruRU",
     "jaJP", "ptPT", "itIT", "unused1", "unused2", "unused3", "unused4", "flags" >>

\* Strings are sequences of bytes.
Foo == <<70, 111, 111>>
Bar == <<66, 97, 114>>
\* The strings a text cell may hold: empty, plain, and one with a null byte
\* inside (a TEXT column stores any byte).
TextValues == { <<>>, Foo, Bar, <<70, 0, 111>> }
TextCells == TextValues \cup {NULL}
\* The NULL cell of a number column (the cells modelled are positive).
NullNumber == -1
NumberCells == {1, 2, NullNumber}

\* The schemas exported: ID and Name; a float and a repeated string; a
\* localized field.
EncodeMetas ==
  { << [name |-> "ID", type |-> "int32", count |-> 0],
       [name |-> "Name", type |-> "string", count |-> 0] >>,
    << [name |-> "Scale", type |-> "float", count |-> 1],
       [name |-> "Name", type |-> "string", count |-> 2] >>,
    << [name |-> "ID", type |-> "uint32", count |-> 0],
       [name |-> "Text", type |-> "Loc", count |-> 0] >> }

\* name := field.Name; if field.Count > 1 { name = field.Name_<j+1> }
SlotName(field, j) ==
  IF field.count > 1 THEN field.name \o "_" \o ToString(j) ELSE field.name

\* The field slots of a schema in order: one per repetition of each field.
RECURSIVE ExpandFields(_)
ExpandFields(fields) ==
  IF fields = <<>> THEN <<>>
  ELSE LET f == Head(fields)
       IN [j \in 1..Repeat(f) |-> [name |-> SlotName(f, j), type |-> f.type]]
            \o ExpandFields(Tail(fields))

\* The columns whose strings a slot interns, in the order of the calls.
TextColumns(slot) ==
  IF slot.type = "string" THEN <<slot.name>>
  ELSE IF slot.type = "Loc"
    THEN [i \in 1..(NumLocColumns - 1) |-> slot.name \o "_" \o locLangs[i]]
  ELSE <<>>

\* The number column a slot reads.
NumberColumns(slot) ==
  IF slot.type \in {"int32", "uint32", "float"} THEN <<slot.name>>
  ELSE IF slot.type = "Loc" THEN <<slot.name \o "_flags">>
  ELSE <<>>

RECURSIVE Flatten(_)
Flatten(ss) == IF ss = <<>> THEN <<>> ELSE Head(ss) \o Flatten(Tail(ss))
Range(s) == { s[i] : i \in 1..Len(s) }

AllTextColumns(fields) ==
  Flatten([i \in 1..Len(ExpandFields(fields)) |-> TextColumns(ExpandFields(fields)[i])])
AllNumberColumns(fields) ==
  Flatten([i \in 1..Len(ExpandFields(fields)) |-> NumberColumns(ExpandFields(fields)[i])])

\* A cell as the conversions see it: a []byte cell has a text and no number,
\* an int64 cell a number and no text, a NULL cell neither.
TextCell(s) == [text |-> s, number |-> NullNumber]
NumberCell(n) == [text |-> NULL, number |-> n]

\* toString: the cell of column `name`, "" when the column is missing from
\* the result set or the cell is NULL or no text.
toString(raw, columns, name) ==
  IF name \in columns /\ raw[name].text # NULL THEN raw[name].text ELSE <<>>

\* toInt32 / toUint32 / toFloat32: the cell of column `name`, 0 when the
\* column is missing from the result set or the cell is NULL or no number.
toNumber_KeepsNull(raw, columns, name) ==
  IF name \in columns THEN raw[name].number ELSE 0
toNumber(raw, columns, name) ==
  IF name \in columns /\ raw[name].number # NullNumber THEN raw[name].number ELSE 0

\* StringBlock: []byte{0} and stringOffsets: map[string]uint32{"": 0}.
InitialStringBlock_Empty == <<>>
InitialStringBlock == <<0>>
InitialOffsets == (<<>> :> 0)

\* offsets[s] exists.
Known_Never(s, offsets) == FALSE
Known(s, offsets) == s \in DOMAIN offsets

\* append(*block, []byte(s)...), append(*block, 0)
AppendString_NoTerminator(block, s) == block \o s
AppendString(block, s) == block \o s \o <<0>>

\* getStringOffset: the offset returned, and the block and map it leaves.
getStringOffset(s, block, offsets) ==
  IF Known(s, offsets)
    THEN [off |-> offsets[s], block |-> block, offsets |-> offsets]
    ELSE [off |-> Len(block), block |-> AppendString(block, s),
          offsets |-> (s :> Len(block)) @@ offsets]

\* The getStringOffset calls of one slot, in order: the offsets returned
\* (so far: offs) and the block and map after the last call.
RECURSIVE InternColumns(_, _, _, _, _, _)
InternColumns(names, raw, columns, offs, block, offsets) ==
  IF names = <<>> THEN [offs |-> offs, block |-> block, offsets |-> offsets]
  ELSE LET r == getStringOffset(toString(raw, columns, Head(names)), block, offsets)
       IN CASE r.off >= 0 ->  \* a uint32
            InternColumns(Tail(names), raw, columns, Append(offs, r.off), r.block, r.offsets)

\* The body of the rows.Next loop: rec (so far: rec) filled slot by slot.
RECURSIVE RowToRecord(_, _, _, _, _, _)
RowToRecord(slots, raw, columns, rec, block, offsets) ==
  IF slots = <<>> THEN [rec |-> rec, block |-> block, offsets |-> offsets]
  ELSE LET slot == Head(slots)
           t == InternColumns(TextColumns(slot), raw, columns, <<>>, block, offsets)
           value ==
             IF slot.type \in {"int32", "uint32", "float"}
               THEN toNumber(raw, columns, slot.name)
             ELSE IF slot.type = "string" THEN t.offs[1]
             ELSE Append(t.offs, toNumber(raw, columns, slot.name \o "_flags"))
       IN IF slot.type \in KnownTypes
            THEN RowToRecord(Tail(slots), raw, columns, (slot.name :> value) @@ rec,
                             t.block, t.offsets)
            ELSE RowToRecord(Tail(slots), raw, columns, rec, block, offsets)

\* The bytes one repetition of a field takes in a record.
SlotBytes_LocTextsOnly(type) ==
  IF type \in {"int32", "uint32", "float", "string"} THEN 4
  ELSE IF type = "Loc" THEN 4 * (NumLocColumns - 1)
  ELSE 0
SlotBytes(type) ==
  IF type \in {"int32", "uint32", "float", "string"} THEN 4
  ELSE IF type = "Loc" THEN 4 * NumLocColumns
  ELSE 0

RECURSIVE calculateRecordSize(_)
calculateRecordSize(fields) ==
  IF fields = <<>> THEN 0
  ELSE Repeat(Head(fields)) * SlotBytes(Head(fields).type) + calculateRecordSize(Tail(fields))

RECURSIVE calculateFieldCount(_)
calculateFieldCount(fields) ==
  IF fields = <<>> THEN 0
  ELSE Repeat(Head(fields)) * (IF Head(fields).type = "Loc" THEN NumLocColumns ELSE 1)
         + calculateFieldCount(Tail(fields))

\* A row of the result set: the number columns hold n, the text columns hold
\* s1 and s2 in turn.
RawRow(fields, columns, n, s1, s2) ==
  LET texts == AllTextColumns(fields)
      index(c) == CHOOSE i \in 1..Len(texts) : texts[i] = c
  IN [c \in columns |->
        IF c \in Range(texts) THEN TextCell(IF index(c) % 2 = 1 THEN s1 ELSE s2)
        ELSE NumberCell(n)]

\* One pass of the rows.Next loop.
EncodeRow ==
  /\ UNCHANGED notEncode
  /\ header = NoHeader
  /\ callLog = <<>>
  /\ Len(encRecords) < MaxRows
  /\ \E n \in NumberCells, s1 \in TextCells, s2 \in TextCells :
       LET raw == RawRow(encMeta, rowColumns, n, s1, s2)
           r == RowToRecord(ExpandFields(encMeta), raw, rowColumns, <<>>, stringBlock,
                            stringOffsets)
       IN /\ rawRows' = Append(rawRows, raw)
          /\ encRecords' = Append(encRecords, r.rec)
          /\ stringBlock' = r.block
          /\ stringOffsets' = r.offsets
  /\ UNCHANGED <<encMeta, rowColumns, header, callLog>>

\* rows.Next returns false: the header is filled in.
FillHeader ==
  /\ UNCHANGED notEncode
  /\ header = NoHeader
  /\ callLog = <<>>
  /\ header' = [recordCount |-> Len(encRecords),
                fieldCount |-> calculateFieldCount(encMeta),
                recordSize |-> calculateRecordSize(encMeta),
                stringBlockSize |-> Len(stringBlock)]
  /\ UNCHANGED <<encMeta, rowColumns, rawRows, stringBlock, stringOffsets, encRecords, callLog>>

\* The columns of the result set: those of the schema, or with one text
\* column or one number column missing (a table that was not created from
\* this schema).
ColumnSets(fields) ==
  LET all == Range(AllTextColumns(fields)) \cup Range(AllNumberColumns(fields))
  IN { all, all \ {AllTextColumns(fields)[1]}, all \ {AllNumberColumns(fields)[1]} }

EncodeInit ==
  /\ encMeta \in EncodeMetas
  /\ rowColumns \in ColumnSets(encMeta)
  /\ rawRows = <<>>
  /\ stringBlock = InitialStringBlock
  /\ stringOffsets = InitialOffsets
  /\ encRecords = <<>>
  /\ header = NoHeader
  /\ callLog = <<>>
  /\ ExportIdle
  /\ BulkIdle
  /\ ImportIdle
  /\ SchemaIdle
  /\ SortIdle

EncodeNext ==
  \/ EncodeRow
  \/ FillHeader

SpecEncode == EncodeInit /\ [][EncodeNext]_vars

\* One getStringOffset call on the session's block and map, with any string.
CallGetStringOffset ==
  /\ UNCHANGED notEncode
  /\ Len(callLog) < MaxCalls
  /\ \E s \in TextValues :
       LET r == getStringOffset(s, stringBlock, stringOffsets)
       IN /\ stringBlock' = r.block
          /\ stringOffsets' = r.offsets
          /\ callLog' = Append(callLog, [s |-> s, off |-> r.off,
                                         grew |-> Len(r.block) - Len(stringBlock)])
  /\ UNCHANGED <<encMeta, rowColumns, rawRows, encRecords, header>>

StringsInit ==
  /\ encMeta = <<>>
  /\ rowColumns = {}
  /\ rawRows = <<>>
  /\ stringBlock = InitialStringBlock
  /\ stringOffsets = InitialOffsets
  /\ encRecords = <<>>
  /\ header = NoHeader
  /\ callLog = <<>>
  /\ ExportIdle
  /\ BulkIdle
  /\ ImportIdle
  /\ SchemaIdle
  /\ SortIdle

StringsNext == CallGetStringOffset

SpecStrings == StringsInit /\ [][StringsNext]_vars

(***************************************************************************)
(* Schema expansion: what createTable, insertRecords, ExportDBC,           *)
(* calculateRecordSize and calculateFieldCount make of one schema.         *)
(***************************************************************************)

FieldNames == {"Data", "Data_1"}
FieldTypes == {"int32", "uint32", "float", "string", "Loc", "bool"}
FieldCounts == {0, 1, 2}
\* The schemas: up to MaxFields fields of any name, kind and count.
Schemas == SeqsUpTo([name : FieldNames, type : FieldTypes, count : FieldCounts], MaxFields)

\* The NULL cell.
NullCell == [text |-> NULL, number |-> NullNumber]

\* createTable: the columns of one repetition of a field: the slot name, or
\* one column per entry of locLangs.
ColumnNames(type, slotName) ==
  IF type \in {"int32", "uint32", "float", "string"} THEN <<slotName>>
  ELSE IF type = "Loc" THEN [i \in 1..NumLocColumns |-> slotName \o "_" \o locLangs[i]]
  ELSE <<>>

\* createTable: the SQL types of those columns; the last entry of locLangs
\* (flags) is INT UNSIGNED, the others TEXT.
ColumnTypes(type) ==
  IF type = "int32" THEN <<"INT">>
  ELSE IF type = "uint32" THEN <<"BIGINT UNSIGNED">>
  ELSE IF type = "float" THEN <<"FLOAT">>
  ELSE IF type = "string" THEN <<"TEXT">>
  ELSE IF type = "Loc"
    THEN [i \in 1..Len(locLangs) |-> IF i = Len(locLangs) THEN "INT UNSIGNED" ELSE "TEXT"]
  ELSE <<>>

\* createTable: the column list, in field order.
RECURSIVE ExpandColumns(_)
ExpandColumns(fields) ==
  IF fields = <<>> THEN <<>>
  ELSE LET f == Head(fields)
       IN Flatten([j \in 1..Repeat(f) |-> ColumnNames(f.type, SlotName(f, j))])
            \o ExpandColumns(Tail(fields))

RECURSIVE ExpandTypes(_)
ExpandTypes(fields) ==
  IF fields = <<>> THEN <<>>
  ELSE LET f == Head(fields)
       IN Flatten([j \in 1..Repeat(f) |-> ColumnTypes(f.type)]) \o ExpandTypes(Tail(fields))

\* insertRecords: what one repetition of a field appends to columnsBase (a
\* field of an unknown kind appends nothing).
BaseColumns_LocalesOnly(type, slotName) ==
  IF type \in {"int32", "uint32", "float", "string"} THEN <<slotName>>
  ELSE IF type = "Loc"
    THEN [i \in 1..(Len(locLangs) - 1) |-> slotName \o "_" \o locLangs[i]]
  ELSE <<>>
BaseColumns(type, slotName) ==
  IF type \in {"int32", "uint32", "float", "string"} THEN <<slotName>>
  ELSE IF type = "Loc" THEN [i \in 1..Len(locLangs) |-> slotName \o "_" \o locLangs[i]]
  ELSE <<>>

\* insertRecords: columnsBase.
RECURSIVE columnsBase(_)
columnsBase(fields) ==
  IF fields = <<>> THEN <<>>
  ELSE LET f == Head(fields)
       IN Flatten([j \in 1..Repeat(f) |-> BaseColumns(f.type, SlotName(f, j))])
            \o columnsBase(Tail(fields))

\* The record inserted, as LoadDBC returns it with its strings read from the
\* string block: a number per numeric slot, a string per string slot, and
\* for a Loc slot an array of 16 strings and the flags. Every value differs
\* from every other; the second locale of a Loc slot is the empty string.
SourceRecord(fields) ==
  LET slots == ExpandFields(fields)
      SlotIndex(name) == CHOOSE q \in 1..Len(slots) : slots[q].name = name
  IN [name \in {slots[q].name : q \in 1..Len(slots)} |->
        LET q == SlotIndex(name)
        IN IF slots[q].type = "string" THEN TextCell(<<64 + q>>)
           ELSE IF slots[q].type = "Loc"
             THEN [i \in 1..NumLocColumns |->
                     IF i = NumLocColumns THEN NumberCell(100 + q)
                     ELSE IF i = 2 THEN TextCell(<<>>)
                     ELSE TextCell(<<64 + q, 96 + i>>)]
           ELSE NumberCell(q)]

\* insertRecords: what one repetition of a field appends to allValues.
\* locArr := rec[name].([]uint32); numTexts := len(locArr) - 1.
SlotValues(type, value) ==
  IF type \in {"int32", "uint32", "float", "string"} THEN <<value>>
  ELSE IF type = "Loc"
    THEN LET numTexts == Len(value) - 1
         IN [i \in 1..Len(locLangs) |->
               IF i - 1 < numTexts THEN value[i]
               ELSE IF i - 1 = numTexts THEN value[numTexts + 1]
               ELSE NullCell]
  ELSE <<>>

\* No two repetitions of the fields have the same name. Fields that share a
\* slot name share one entry of the record.
DistinctSlots(slots) == \A p, q \in 1..Len(slots) : slots[p].name = slots[q].name => p = q

\* insertRecords: allValues of one record. With a shared entry the values
\* are not built here: the entry has the type of one field only, and
\* rec[name].(uint32) or rec[name].([]uint32) panics for the other, or the
\* statement is refused for a column named twice.
AllValues(fields, rec) ==
  LET slots == ExpandFields(fields)
  IN IF DistinctSlots(slots)
       THEN Flatten([q \in 1..Len(slots) |-> SlotValues(slots[q].type, rec[slots[q].name])])
       ELSE <<>>

\* Whether a column of SQL type sqlType stores the value: NULL fits every
\* column, a string a TEXT column, a number the other columns.
Fits(value, sqlType) ==
  \/ value = NullCell
  \/ value.text # NULL /\ sqlType = "TEXT"
  \/ value.number # NullNumber /\ sqlType # "TEXT"

\* db.Exec of the CREATE TABLE statement: the server refuses a table without
\* columns and a column name given twice.
TableCreated(names) == names # <<>> /\ \A i, j \in 1..Len(names) : names[i] = names[j] => i = j

\* tx.Exec of INSERT INTO t (columns) VALUES (values): the row the table
\* holds afterwards. The statement fails when the table was not created,
\* when a column is named twice or is no column of the table, when the
\* values are not one per column, or when a value does not fit its column.
\* With a shared record entry (see AllValues) no row is written either.
ExecInsert(slots, names, types, columns, values) ==
  LET TypeOf(c) == types[CHOOSE i \in 1..Len(names) : names[i] = c]
      At(c) == CHOOSE k \in 1..Len(columns) : columns[k] = c
      ok == /\ TableCreated(names)
            /\ DistinctSlots(slots)
            /\ \A k, l \in 1..Len(columns) : columns[k] = columns[l] => k = l
            /\ Range(columns) \subseteq Range(names)
            /\ Len(values) = Len(columns)
            /\ \A k \in 1..Len(columns) : Fits(values[k], TypeOf(columns[k]))
  IN IF ok
       THEN [written |-> TRUE,
             cells |-> [c \in Range(names) |->
                          IF c \in Range(columns) THEN values[At(c)] ELSE NullCell]]
       ELSE NoImportedRow

\* createTable: an unknown kind returns an error before any statement.
ApplyCreateTable ==
  /\ UNCHANGED notSchema
  /\ schemaPc = "createTable"
  /\ ddlError' = HasUnknownType([fields |-> schema])
  /\ ddlColumns' = IF ddlError' THEN <<>> ELSE ExpandColumns(schema)
  /\ ddlTypes' = IF ddlError' THEN <<>> ELSE ExpandTypes(schema)
  /\ schemaPc' = "insertRecords"
  /\ UNCHANGED <<schema, insertColumns, exportRec, recordSize, fieldCount, insertValues,
                 importedRow, readColumns, reExported>>

\* insertRecords: columnsBase, allValues and the statement, for one record.
ApplyInsertColumns ==
  /\ UNCHANGED notSchema
  /\ schemaPc = "insertRecords"
  /\ insertColumns' = columnsBase(schema)
  /\ insertValues' = AllValues(schema, SourceRecord(schema))
  /\ importedRow' = ExecInsert(ExpandFields(schema), ddlColumns, ddlTypes, insertColumns',
                               insertValues')
  /\ schemaPc' = "ExportDBC"
  /\ UNCHANGED <<schema, ddlColumns, ddlError, exportRec, recordSize, fieldCount, ddlTypes,
                 readColumns, reExported>>

\* ExportDBC: the record of a row whose number cells hold 1 and whose text
\* cells hold "Foo" and "Bar" (an empty string block before it).
ApplyRowToRecord ==
  /\ UNCHANGED notSchema
  /\ schemaPc = "ExportDBC"
  /\ LET columns == Range(AllTextColumns(schema)) \cup Range(AllNumberColumns(schema))
         raw == RawRow(schema, columns, 1, Foo, Bar)
     IN /\ exportRec' = RowToRecord(ExpandFields(schema), raw, columns, <<>>,
                                    InitialStringBlock, InitialOffsets).rec
        /\ readColumns' = columns
  /\ schemaPc' = "calculateRecordSize"
  /\ UNCHANGED <<schema, ddlColumns, ddlError, insertColumns, recordSize, fieldCount,
                 ddlTypes, insertValues, importedRow, reExported>>

ApplyRecordSize ==
  /\ UNCHANGED notSchema
  /\ schemaPc = "calculateRecordSize"
  /\ recordSize' = calculateRecordSize(schema)
  /\ schemaPc' = "calculateFieldCount"
  /\ UNCHANGED <<schema, ddlColumns, ddlError, insertColumns, exportRec, fieldCount,
                 ddlTypes, insertValues, importedRow, readColumns, reExported>>

ApplyFieldCount ==
  /\ UNCHANGED notSchema
  /\ schemaPc = "calculateFieldCount"
  /\ fieldCount' = calculateFieldCount(schema)
  /\ schemaPc' = "exportImported"
  /\ UNCHANGED <<schema, ddlColumns, ddlError, insertColumns, exportRec, recordSize,
                 ddlTypes, insertValues, importedRow, readColumns, reExported>>

\* ExportDBC on the imported table: SELECT * returns the columns of the
\* table in the order of the CREATE TABLE statement, and the one row.
ApplyExportImported ==
  /\ UNCHANGED notSchema
  /\ schemaPc = "exportImported"
  /\ reExported' =
       IF importedRow.written
         THEN LET r == RowToRecord(ExpandFields(schema), importedRow.cells,
                                   Range(ddlColumns), <<>>, InitialStringBlock,
                                   InitialOffsets)
              IN [done |-> TRUE, rec |-> r.rec, block |-> r.block]
         ELSE NothingExported
  /\ schemaPc' = "done"
  /\ UNCHANGED <<schema, ddlColumns, ddlError, insertColumns, exportRec, recordSize,
                 fieldCount, ddlTypes, insertValues, importedRow, readColumns>>

SchemaInit ==
  /\ schema \in Schemas
  /\ schemaPc = "createTable"
  /\ ddlColumns = <<>>
  /\ ddlError = FALSE
  /\ insertColumns = <<>>
  /\ exportRec = <<>>
  /\ recordSize = 0
  /\ fieldCount = 0
  /\ ddlTypes = <<>>
  /\ insertValues = <<>>
  /\ importedRow = NoImportedRow
  /\ readColumns = {}
  /\ reExported = NothingExported
  /\ ExportIdle
  /\ BulkIdle
  /\ ImportIdle
  /\ EncodeIdle
  /\ SortIdle

SchemaNext ==
  \/ ApplyCreateTable
  \/ ApplyInsertColumns
  \/ ApplyRowToRecord
  \/ ApplyRecordSize
  \/ ApplyFieldCount
  \/ ApplyExportImported

SpecSchema == SchemaInit /\ [][SchemaNext]_vars

(***************************************************************************)
(* The ordered read: buildOrderBy, the query, and the records in the order *)
(* the rows arrive.                                                        *)
(***************************************************************************)

\* Direction literals, as sequences of characters.
DirectionLiterals ==
  { <<>>, <<"A", "S", "C">>, <<"D", "E", "S", "C">>, <<"d", "e", "s", "c">>,
    <<"D", "e", "s", "c">>, <<"d", "o", "w", "n">> }
SortColumns == {"ID", "Kind"}
SortOrders == SeqsUpTo([name : SortColumns, direction : DirectionLiterals], 2)
SortRows == [ID : {1, 2}, Kind : {1, 2}]

\* strings.ToUpper, on the letters that occur.
UpperChar(c) ==
  CASE c = "a" -> "A" [] c = "s" -> "S" [] c = "c" -> "C" [] c = "d" -> "D"
    [] c = "e" -> "E" [] c = "o" -> "O" [] c = "w" -> "W" [] c = "n" -> "N"
    [] OTHER -> c
ToUpper(s) == [i \in 1..Len(s) |-> UpperChar(s[i])]

\* dir := strings.ToUpper(sf.Direction); anything but ASC and DESC is ASC.
Direction_CaseSensitive(literal) ==
  IF literal = <<"D", "E", "S", "C">> THEN "DESC" ELSE "ASC"
Direction(literal) ==
  LET dir == ToUpper(literal)
  IN IF dir # <<"A", "S", "C">> /\ dir # <<"D", "E", "S", "C">> THEN "ASC"
     ELSE IF dir = <<"D", "E", "S", "C">> THEN "DESC" ELSE "ASC"

\* buildOrderBy: "" without sort fields, else one part per field, in order.
buildOrderBy(sort) ==
  IF Len(sort) = 0 THEN <<>>
  ELSE [i \in 1..Len(sort) |-> [name |-> sort[i].name, dir |-> Direction(sort[i].direction)]]

\* ORDER BY as the database applies it: row a may come before row b.
RECURSIVE MayPrecede(_, _, _)
MayPrecede(a, b, clause) ==
  IF clause = <<>> THEN TRUE
  ELSE LET key == Head(clause)
       IN IF a[key.name] = b[key.name] THEN MayPrecede(a, b, Tail(clause))
          ELSE IF key.dir = "DESC" THEN a[key.name] > b[key.name]
          ELSE a[key.name] < b[key.name]

RECURSIVE Orderings(_)
Orderings(S) ==
  IF S = {} THEN { <<>> }
  ELSE UNION { { <<x>> \o s : s \in Orderings(S \ {x}) } : x \in S }

\* The sequences in which SELECT * FROM t <clause> may deliver the rows.
QueryResults(table, clause) ==
  { s \in Orderings(table) :
      \A i, j \in 1..Len(s) : i < j => MayPrecede(s[i], s[j], clause) }

\* orderClause := buildOrderBy(meta.SortOrder)
BuildOrderBy ==
  /\ UNCHANGED notSort
  /\ sortPc = "order"
  /\ orderClause' = buildOrderBy(sortOrder)
  /\ sortPc' = "query"
  /\ UNCHANGED <<sortOrder, tableRows, resultRows, emitted, recordCount>>

\* db.Query
QueryRows ==
  /\ UNCHANGED notSort
  /\ sortPc = "query"
  /\ resultRows' \in QueryResults(tableRows, orderClause)
  /\ sortPc' = "rows"
  /\ UNCHANGED <<sortOrder, orderClause, tableRows, emitted, recordCount>>

\* One pass of the rows.Next loop: dbc.Records = append(dbc.Records, rec)
ReadRow ==
  /\ UNCHANGED notSort
  /\ sortPc = "rows"
  /\ resultRows # <<>>
  /\ emitted' = Append(emitted, Head(resultRows))
  /\ resultRows' = Tail(resultRows)
  /\ UNCHANGED <<sortOrder, orderClause, tableRows, recordCount, sortPc>>

\* rows.Next returns false: dbc.Header.RecordCount = uint32(len(dbc.Records))
CountRecords ==
  /\ UNCHANGED notSort
  /\ sortPc = "rows"
  /\ resultRows = <<>>
  /\ recordCount' = Len(emitted)
  /\ sortPc' = "done"
  /\ UNCHANGED <<sortOrder, orderClause, tableRows, resultRows, emitted>>

SortInit ==
  /\ sortOrder \in SortOrders
  /\ tableRows \in { t \in SUBSET SortRows : Cardinality(t) <= MaxTableRows }
  /\ orderClause = <<>>
  /\ resultRows = <<>>
  /\ emitted = <<>>
  /\ recordCount = 0
  /\ sortPc = "order"
  /\ ExportIdle
  /\ BulkIdle
  /\ ImportIdle
  /\ EncodeIdle
  /\ SchemaIdle

SortNext ==
  \/ BuildOrderBy
  \/ QueryRows
  \/ ReadRow
  \/ CountRecords

SpecSort == SortInit /\ [][SortNext]_vars

(***************************************************************************)
(* Claims about the export pipeline (checked under SpecExport)             *)
(***************************************************************************)

BothReturnedNil ==
  /\ Len(calls) = 2
  /\ calls[1].outcome \in {"Skipped", "Exported"}
  /\ calls[2].outcome \in {"Skipped", "Exported"}

C2_SkipIffEqualAndVersioning ==
  /\ (pc = "done" /\ frame.compared)
       => ((phase = "Skipped") <=> (frame.equal /\ useVersioning))
  /\ (pc = "done" /\ phase = "Skipped")
       => /\ frame.compared
          /\ ~frame.read /\ ~frame.wrote /\ ~frame.updated
          /\ rows = NoRows
          /\ StoredValue(checksumEntry) = frame.entry0
  /\ (pc \in {"query", "scan", "mkdir", "write", "update"})
       => (frame.compared /\ ~(currentCS = storedCS /\ useVersioning))

C2_Witness ==
  /\ pc = "done"
  /\ phase = "Skipped"
  /\ useVersioning
  /\ currentCS = 1
  /\ storedCS = 1

AllUpserted == UpsertBatch(rows0, records, UniqueIndexes(meta)).rows

\* No two records share a value of any declared key.
NoSharedKey ==
  \A k \in 1..Len(UniqueIndexes(meta)) : \A i, j \in 1..Len(records) :
    i # j => KeyOf(records[i], UniqueIndexes(meta)[k]) # KeyOf(records[j], UniqueIndexes(meta)[k])

\* C4: the batches of one import are written inside one transaction that is
\* rolled back when a batch (or the commit) fails: at every moment the table
\* holds either exactly the rows it held when the import started or, once
\* the import has succeeded, the result of upserting every record; an
\* aborted import leaves none of its rows, a successful one all of them
\* (every record itself when no two records share a key).
C4_ImportAllOrNothing ==
  /\ ipc # "idle" =>
       \/ tblRows = rows0
       \/ (ipc = "done" /\ importResult = "imported" /\ tblRows = AllUpserted)
  /\ (ipc = "done" /\ importResult = "failed") => (tblRows = rows0 /\ tx = NoTx)
  /\ (ipc = "done" /\ importResult = "imported") =>
       /\ tblRows = AllUpserted
       /\ tx = NoTx
       /\ NoSharedKey => \A i \in 1..Len(records) : records[i] \in tblRows

C4_Witness ==
  /\ ipc = "done"
  /\ importResult = "failed"
  /\ importErr = "storage"
  /\ Len(batches) >= 1
  /\ rows0 = {}
  /\ tblRows = {}
  /\ tblExists

\* The last record of the file that has the same value as record i on the
\* index cols.
LastWithKey(i, cols) ==
  CHOOSE j \in 1..Len(records) :
    /\ KeyOf(records[j], cols) = KeyOf(records[i], cols)
    /\ \A h \in (j + 1)..Len(records) : KeyOf(records[h], cols) # KeyOf(records[i], cols)

\* C6: whatever records share a declared primary or unique key, the upsert
\* into the freshly created table never fails on the key conflict, and after
\* the import every key value of a record has exactly one row, which holds the
\* values of the last record with that key value.
C6_UpsertKeepsLastPerKey ==
  /\ rows0 = {} => importErr # "duplicate"
  /\ (ipc = "done" /\ importResult = "imported" /\ rows0 = {}) =>
       \A k \in 1..Len(UniqueIndexes(meta)) : \A i \in 1..Len(records) :
         Colliding(tblRows, records[i], UniqueIndexes(meta)[k])
           = { records[LastWithKey(i, UniqueIndexes(meta)[k])] }

\* C7: the batch size insertRecords computes keeps columns_per_row x batch_size
\* within 60000 and batch_size within 2000, and so does every batch executed.
C7_BatchWithinLimits ==
  ipc = "batch" =>
    /\ ColumnsPerRow(meta.fields) * batchSize <= MaxPlaceholders
    /\ batchSize <= MaxBatchRows
    /\ \A b \in 1..Len(batches) :
         /\ batches[b][2] - batches[b][1] <= batchSize
         /\ ColumnsPerRow(meta.fields) * (batches[b][2] - batches[b][1]) <= MaxPlaceholders

C7_Witness ==
  /\ ipc = "batch"
  /\ batchSize > 2
  /\ batchSize < MaxBatchRows
  /\ ColumnsPerRow(meta.fields) * (batchSize + 1) > MaxPlaceholders
  /\ Len(batches) = 1

(***************************************************************************)
(* Claims about skipping, batching and re-running an import (SpecImport)   *)
(***************************************************************************)

\* C14: ImportDBC (its schema loaded) skips the table without error when the
\* source .dbc file is absent or the destination table already exists: no
\* DDL is executed and no row is inserted, updated or deleted.
C14_SkipLeavesTableAlone ==
  (ipc = "done" /\ importErr # "meta" /\ (~dbcPresent \/ exists0)) =>
    /\ importResult = "skipped"
    /\ importErr = "none"
    /\ ~ddlRun
    /\ tblRows = rows0
    /\ tblExists = exists0

\* C19: for every schema and every non-empty record sequence the batch size
\* is at least 1 and the batches of the loop partition the record sequence:
\* each holds at least one record, they are contiguous and in input order,
\* and once the loop has ended every record has been in exactly one batch.
C19_BatchesPartitionRecords ==
  /\ ipc = "batch" => batchSize >= 1
  /\ importErr # "syntax"
  /\ \A b \in 1..Len(batches) :
       /\ batches[b][1] < batches[b][2]
       /\ batches[b][2] <= Len(records)
       /\ batches[b][1] = IF b = 1 THEN 0 ELSE batches[b - 1][2]
  /\ (ipc = "done" /\ (importResult = "imported" \/ importErr = "commit")
        /\ Len(records) > 0) =>
       /\ Len(batches) >= 1
       /\ batches[Len(batches)][2] = Len(records)

\* C20: createTable runs outside and before the insert transaction: when
\* insertRecords fails and rolls back, the table it created still exists,
\* with zero rows, and every later ImportDBC of the same table (its schema
\* loaded) is skipped as already present: the records are never imported.
C20_FailedImportIsNeverRetried ==
  /\ (ipc = "done" /\ importResult = "failed" /\ importErr \in InsertErrors /\ ~exists0) =>
       /\ tblExists
       /\ tblRows = {}
  /\ insertFailed =>
       /\ tblExists
       /\ tblRows = {}
       /\ (ipc = "done" /\ importErr # "meta") => importResult = "skipped"

(***************************************************************************)
(* Claims about bulk runs (checked under SpecBulk)                         *)
(***************************************************************************)

\* C5: in a bulk run an error in one table's pipeline stops only that table:
\* when the run has ended, every table of the run has been processed.
C5_OtherTablesStillProcessed ==
  bulkState \in {"completed", "aborted"}
    => \A t \in Tables : bulkPhase[t] # "Unknown"

(***************************************************************************)
(* Claims about the string block and the encoded file.                     *)
(***************************************************************************)

\* The bytes of the block from offset off up to the next null byte.
RECURSIVE ReadString(_, _)
ReadString(block, off) ==
  IF off + 1 > Len(block) \/ block[off + 1] = 0 THEN <<>>
  ELSE <<block[off + 1]>> \o ReadString(block, off + 1)

\* The part of s before its first null byte.
RECURSIVE UpToNull(_)
UpToNull(s) ==
  IF s = <<>> \/ Head(s) = 0 THEN <<>> ELSE <<Head(s)>> \o UpToNull(Tail(s))

FirstOccurrence(i) ==
  /\ callLog[i].s # <<>>
  /\ \A j \in 1..(i - 1) : callLog[j].s # callLog[i].s

\* What the calls of a session have in common whatever the strings are.
OffsetsIdentifyStrings ==
  \A i \in 1..Len(callLog) :
    /\ \A j \in 1..Len(callLog) :
         (callLog[i].s = callLog[j].s) <=> (callLog[i].off = callLog[j].off)
    /\ callLog[i].grew = IF FirstOccurrence(i) THEN Len(callLog[i].s) + 1 ELSE 0

\* C8 as stated: getStringOffset returns the same offset for the same string
\* and different offsets for different strings, the block grows only on the
\* first occurrence of a string (by its length plus one), and the bytes from
\* the returned offset up to the next null byte equal the string.
C8_OffsetReadsBackString ==
  /\ OffsetsIdentifyStrings
  /\ \A i \in 1..Len(callLog) : ReadString(stringBlock, callLog[i].off) = callLog[i].s

\* C8 amended: as above, and the bytes from the returned offset up to the
\* next null byte equal the string when the string holds no null byte; they
\* equal the part of the string before its first null byte otherwise.
C8_OffsetReadsBackUpToNull ==
  /\ OffsetsIdentifyStrings
  /\ \A i \in 1..Len(callLog) :
       ReadString(stringBlock, callLog[i].off) = UpToNull(callLog[i].s)

\* A session that saw a string twice, two different strings and a string
\* with a null byte inside.
C8_Witness ==
  /\ \E i, j \in 1..Len(callLog) :
       i < j /\ callLog[i].s = callLog[j].s /\ callLog[i].s = Foo
  /\ \E i \in 1..Len(callLog) : callLog[i].s = Bar
  /\ \E i \in 1..Len(callLog) : 0 \in Range(callLog[i].s)

\* The cell a text column of a row holds is empty: the column is missing
\* from the result set, or the cell is NULL or the empty string.
EmptyCell(raw, name) ==
  name \notin rowColumns \/ raw[name].text = NULL \/ raw[name].text = <<>>

\* The offset a record stores for text column k of slot i.
StoredOffset(rec, slot, k) ==
  IF slot.type = "string" THEN rec[slot.name] ELSE rec[slot.name][k]

\* C9: byte 0 of the string block is a null byte, every empty string (a NULL
\* or missing cell included) is stored as offset 0, and no non-empty string
\* is stored as offset 0.
C9_OffsetZeroIsEmptyString ==
  /\ Len(stringBlock) >= 1
  /\ stringBlock[1] = 0
  /\ ReadString(stringBlock, 0) = <<>>
  /\ \A s \in DOMAIN stringOffsets : (s = <<>>) <=> (stringOffsets[s] = 0)
  /\ \A r \in 1..Len(encRecords) :
       \A i \in 1..Len(ExpandFields(encMeta)) :
         LET slot == ExpandFields(encMeta)[i]
         IN \A k \in 1..Len(TextColumns(slot)) :
              EmptyCell(rawRows[r], TextColumns(slot)[k])
                <=> (StoredOffset(encRecords[r], slot, k) = 0)

\* A record with a NULL cell, a missing column or an empty string next to a
\* non-empty string.
C9_Witness ==
  \E r \in 1..Len(encRecords) :
    \E i, j \in 1..Len(ExpandFields(encMeta)) :
      LET si == ExpandFields(encMeta)[i]
          sj == ExpandFields(encMeta)[j]
      IN \E k \in 1..Len(TextColumns(si)), l \in 1..Len(TextColumns(sj)) :
           /\ TextColumns(si)[k] \in rowColumns
           /\ rawRows[r][TextColumns(si)[k]].text = NULL
           /\ StoredOffset(encRecords[r], si, k) = 0
           /\ ~EmptyCell(rawRows[r], TextColumns(sj)[l])
           /\ StoredOffset(encRecords[r], sj, l) # 0

\* The table of the example: fields ID (int32) and Name (string), rows
\* (1, "Foo") and (2, "Bar"), exported.
FooBarExported ==
  /\ encMeta = << [name |-> "ID", type |-> "int32", count |-> 0],
                  [name |-> "Name", type |-> "string", count |-> 0] >>
  /\ rowColumns = {"ID", "Name"}
  /\ rawRows = << [ID |-> NumberCell(1), Name |-> TextCell(Foo)],
                  [ID |-> NumberCell(2), Name |-> TextCell(Bar)] >>
  /\ header # NoHeader

\* C10 as stated: for that table the header has recordStrideBytes = 8 and
\* stringBlockByteSize = 11.
C10_FooBarStringBlockIs11 ==
  FooBarExported => header.recordSize = 8 /\ header.stringBlockSize = 11

\* C10 amended: for that table the header has recordStrideBytes = 8 and
\* stringBlockByteSize = 9: the leading null byte, "Foo" and its terminator,
\* "Bar" and its terminator.
C10_FooBarStringBlockIs9 ==
  FooBarExported =>
    /\ header.recordSize = 8
    /\ header.stringBlockSize = 9
    /\ header.recordCount = 2
    /\ stringBlock = <<0>> \o Foo \o <<0>> \o Bar \o <<0>>
    /\ encRecords = << [ID |-> 1, Name |-> 1], [ID |-> 2, Name |-> 5] >>

C10_Witness == FooBarExported /\ Len(stringBlock) = 9

\* The cell a number column of a row holds is missing or NULL.
NoNumber(raw, name) == name \notin rowColumns \/ raw[name].number = NullNumber

\* C15: when ExportDBC converts a row to a record, a cell that is NULL or
\* whose column is missing from the result set becomes the zero value of the
\* field's kind (0 for int32, uint32 and float, the empty string at offset 0
\* for string and for each Loc locale, 0 for the Loc flags), any other cell
\* keeps its value, and every row yields a record with a value in every slot.
C15_NullOrMissingBecomesZero ==
  /\ Len(encRecords) = Len(rawRows)
  /\ \A r \in 1..Len(encRecords) :
       /\ DOMAIN encRecords[r] = { ExpandFields(encMeta)[i].name :
                                     i \in 1..Len(ExpandFields(encMeta)) }
       /\ \A i \in 1..Len(ExpandFields(encMeta)) :
            LET slot == ExpandFields(encMeta)[i]
                value == encRecords[r][slot.name]
            IN /\ slot.type \in {"int32", "uint32", "float"} =>
                    value = IF NoNumber(rawRows[r], slot.name) THEN 0
                            ELSE rawRows[r][slot.name].number
               /\ slot.type = "Loc" =>
                    /\ Len(value) = 17
                    /\ value[17] = IF NoNumber(rawRows[r], slot.name \o "_flags") THEN 0
                                   ELSE rawRows[r][slot.name \o "_flags"].number
               /\ \A k \in 1..Len(TextColumns(slot)) :
                    /\ ReadString(stringBlock, StoredOffset(encRecords[r], slot, k))
                         = UpToNull(toString(rawRows[r], rowColumns, TextColumns(slot)[k]))
                    /\ (TextColumns(slot)[k] \notin rowColumns
                          \/ rawRows[r][TextColumns(slot)[k]].text = NULL)
                         => StoredOffset(encRecords[r], slot, k) = 0

\* A row with a NULL number cell and a NULL text cell next to a text cell
\* that holds a string, read from a result set that lacks a column.
C15_Witness ==
  /\ \E c \in Range(AllTextColumns(encMeta)) \cup Range(AllNumberColumns(encMeta)) :
       c \notin rowColumns
  /\ \E r \in 1..Len(encRecords) :
       /\ \E c \in Range(AllNumberColumns(encMeta)) \cap rowColumns :
            rawRows[r][c].number = NullNumber
       /\ \E c, d \in Range(AllTextColumns(encMeta)) \cap rowColumns :
            rawRows[r][c].text = NULL /\ rawRows[r][d].text = Foo

(***************************************************************************)
(* Claims about schema expansion (checked under SpecSchema)                *)
(***************************************************************************)

\* The slot width the file format gives a kind.
SlotWidth(type) ==
  CASE type \in {"int32", "uint32", "float", "string"} -> 4
    [] type = "Loc" -> 68
    [] OTHER -> 0

RECURSIVE SumOfWidths(_)
SumOfWidths(slots) ==
  IF slots = <<>> THEN 0 ELSE SlotWidth(Head(slots).type) + SumOfWidths(Tail(slots))

RecordSizeApplied == schemaPc \in {"calculateFieldCount", "done"}

\* C11: for every schema, calculateRecordSize is a multiple of 4 and equals
\* the sum over the repeat-expanded fields of their slot widths (4 bytes for
\* int32, uint32, float and string, 68 bytes for Loc).
C11_StrideIsSumOfSlotWidths ==
  RecordSizeApplied =>
    /\ recordSize % 4 = 0
    /\ recordSize = SumOfWidths(ExpandFields(schema))

\* A schema with a repeated Loc field next to a scalar field, measured.
C11_Witness ==
  /\ RecordSizeApplied
  /\ \E i, j \in 1..Len(schema) :
       /\ schema[i].type = "Loc" /\ schema[i].count = 2
       /\ schema[j].type = "float" /\ schema[j].count = 0
  /\ recordSize = 140

\* The names the repetitions of a field are to have.
DeclaredNames(f) ==
  IF f.count > 1 THEN [j \in 1..f.count |-> f.name \o "_" \o ToString(j)] ELSE <<f.name>>

\* The columns a field of a known kind is to have in the table.
DeclaredColumns(f) ==
  Flatten([j \in 1..Len(DeclaredNames(f)) |->
             IF f.type = "Loc"
               THEN [i \in 1..17 |-> DeclaredNames(f)[j] \o "_" \o locLangs[i]]
               ELSE <<DeclaredNames(f)[j]>>])

KnownKindsOnly == \A i \in 1..Len(schema) : schema[i].type \in KnownTypes

NoTwoEqual(s) == \A i, j \in 1..Len(s) : s[i] = s[j] => i = j

\* Every field is expanded into the declared names, in field order, by all
\* three functions.
ExpansionNamedAsDeclared ==
  (schemaPc = "done" /\ KnownKindsOnly) =>
    /\ ~ddlError
    /\ ddlColumns = Flatten([i \in 1..Len(schema) |-> DeclaredColumns(schema[i])])
    /\ insertColumns = ddlColumns
    /\ DOMAIN exportRec =
         UNION { Range(DeclaredNames(schema[i])) : i \in 1..Len(schema) }

\* C12: for every schema (of known kinds), a field with count N > 1 is
\* expanded by createTable, insertRecords and ExportDBC into exactly N
\* columns/values named <field>_1 .. <field>_N and a field with count 0 or 1
\* into one column with the bare name, and the expanded columns of the schema
\* are pairwise distinct: none is merged with another.
C12_ExpansionNeverMerged ==
  /\ ExpansionNamedAsDeclared
  /\ (schemaPc = "done" /\ KnownKindsOnly) =>
       /\ NoTwoEqual(ddlColumns)
       /\ NoTwoEqual(insertColumns)
       /\ Cardinality(DOMAIN exportRec) = Len(ExpandFields(schema))

\* C18: for every schema, schemas with a field of an unknown kind included,
\* calculateRecordSize(S) = 4 * calculateFieldCount(S).
C18_StrideIsFourTimesSlotCount ==
  schemaPc = "done" => recordSize = 4 * fieldCount

(***************************************************************************)
(* Claims about the duplicate-key audit                                    *)
(***************************************************************************)

\* C13: the duplicate-key audit is advisory only: with or without duplicate
\* unique keys, checkUniqueKeys changes neither the records nor the schema
\* (nor the database) and returns no error, and ImportDBC goes on to
\* createTable and insertRecords, whose batches hold the full record
\* sequence unchanged.
C13_AuditIsAdvisory ==
  [][ /\ CheckUniqueKeys =>
           /\ UNCHANGED <<records, meta, tblExists, tblRows, tx>>
           /\ ipc' = "create"
           /\ importResult' = "none"
           /\ importErr' = "none"
      /\ UNCHANGED <<records, meta>>
      /\ (importResult' = "imported" /\ dupReport' # {}) =>
           /\ tblExists'
           /\ \A n \in 1..Len(records) :
                \E b \in 1..Len(batches') : batches'[b][1] < n /\ n <= batches'[b][2]
    ]_vars

\* An import that went through with duplicates reported.
C13_Witness ==
  /\ importResult = "imported"
  /\ dupReport # {}
  /\ Len(records) = 3

\* The value a record holds in a column; a record lacking the column holds
\* the sentinel.
ValueAt(rec, col) ==
  IF col \in DOMAIN rec THEN [missing |-> FALSE, v |-> rec[col]]
  ELSE [missing |-> TRUE, v |-> 0]

SameKey(r1, r2, uk) == \A c \in 1..Len(uk) : ValueAt(r1, uk[c]) = ValueAt(r2, uk[c])

\* The sets of record indices (from 0) to report for a key group: every
\* record together with all the records equal to it on the group, when
\* there are two or more.
GroupsToReport(uk) ==
  { g \in { { m - 1 : m \in { k \in 1..Len(records) : SameKey(records[n], records[k], uk) } } :
              n \in 1..Len(records) } : Cardinality(g) >= 2 }

IsDescLiteral(literal) ==
  /\ Len(literal) = 4
  /\ literal[1] \in {"d", "D"}
  /\ literal[2] \in {"e", "E"}
  /\ literal[3] \in {"s", "S"}
  /\ literal[4] \in {"c", "C"}

\* Row a is not after row b in the declared sort order.
RECURSIVE InDeclaredOrder(_, _, _)
InDeclaredOrder(a, b, keys) ==
  IF keys = <<>> THEN TRUE
  ELSE LET k == Head(keys)
       IN IF a[k.name] = b[k.name] THEN InDeclaredOrder(a, b, Tail(keys))
          ELSE IF IsDescLiteral(k.direction) THEN a[k.name] > b[k.name]
          ELSE a[k.name] < b[k.name]

\* C17: the exported rows are ordered by the schema's sort keys in their
\* declared order, a key being descending only when its literal equals DESC
\* case-insensitively and ascending for ASC, an empty or any other literal;
\* without sort keys there is no ordering clause; the records are emitted in
\* the order the rows were read and recordCount is the number of rows read.
C17_RecordsInDeclaredOrder ==
  /\ sortPc \in {"query", "rows", "done"} =>
       /\ (sortOrder = <<>>) <=> (orderClause = <<>>)
       /\ Len(orderClause) = Len(sortOrder)
       /\ \A i \in 1..Len(sortOrder) :
            /\ orderClause[i].name = sortOrder[i].name
            /\ orderClause[i].dir =
                 IF IsDescLiteral(sortOrder[i].direction) THEN "DESC" ELSE "ASC"
  /\ sortPc \in {"rows", "done"} =>
       /\ \A i, j \in 1..Len(emitted) :
            i < j => InDeclaredOrder(emitted[i], emitted[j], sortOrder)
       /\ { emitted[i] : i \in 1..Len(emitted) } \cup { resultRows[i] : i \in 1..Len(resultRows) }
            = tableRows
       /\ Len(emitted) + Len(resultRows) = Cardinality(tableRows)
  /\ sortPc = "done" => recordCount = Cardinality(tableRows)

\* Three rows exported by ID descending (written in lower case), then by
\* Kind under an unknown literal.
C17_Witness ==
  /\ sortPc = "done"
  /\ sortOrder = << [name |-> "ID", direction |-> <<"d", "e", "s", "c">>],
                    [name |-> "Kind", direction |-> <<"d", "o", "w", "n">>] >>
  /\ emitted = << [ID |-> 2, Kind |-> 1], [ID |-> 2, Kind |-> 2], [ID |-> 1, Kind |-> 2] >>
  /\ recordCount = 3

(***************************************************************************)
(* The claims on what a skipped export leaves on disk.                     *)
(***************************************************************************)

\* C21: whenever ExportDBC skips a table under versioning (the comparison at
\* main.go:288 returns nil) and no other writer has touched the table since
\* the call began, an output file exists and it was encoded from content equal
\* to the table's current content.
C21_SkippedTableHasCurrentFile ==
  [][(pc = "compare" /\ phase' = "Skipped" /\ useVersioning /\ ~frame.dirty)
       => (outFile # NoFile /\ outFile = tableContent)]_vars

(***************************************************************************)
(* The claim on the columns import writes and export reads.                *)
(***************************************************************************)

\* The columns one repetition of a field is to have: a scalar field one
\* column, a Loc field the 16 locales in the order of locLangs and then
\* <name>_flags; and which of them hold text.
LocaleCount == 16
ColumnsOfSlot(type, slotName) ==
  IF type = "Loc"
    THEN [i \in 1..LocaleCount |-> slotName \o "_" \o locLangs[i]] \o <<slotName \o "_flags">>
    ELSE <<slotName>>
TextOfSlot(type) ==
  IF type = "Loc" THEN [i \in 1..LocaleCount |-> TRUE] \o <<FALSE>>
  ELSE <<type = "string">>
ColumnsOfSchema ==
  Flatten([i \in 1..Len(schema) |->
             Flatten([j \in 1..Len(DeclaredNames(schema[i])) |->
                        ColumnsOfSlot(schema[i].type, DeclaredNames(schema[i])[j])])])
TextOfSchema ==
  Flatten([i \in 1..Len(schema) |->
             Flatten([j \in 1..Len(DeclaredNames(schema[i])) |-> TextOfSlot(schema[i].type)])])

\* The value export read for a slot is the value import was given for it
\* (offsets compared by the strings they point at).
ReadsBack(slot) ==
  LET given == SourceRecord(schema)[slot.name]
      read == reExported.rec[slot.name]
  IN IF slot.type = "string" THEN ReadString(reExported.block, read) = given.text
     ELSE IF slot.type = "Loc"
       THEN /\ Len(read) = LocaleCount + 1
            /\ \A i \in 1..LocaleCount : ReadString(reExported.block, read[i]) = given[i].text
            /\ read[LocaleCount + 1] = given[LocaleCount + 1].number
     ELSE read = given.number

\* C22: for every schema of recognized kinds, the column list of createTable
\* and the column list of insertRecords are the same list, its names are the
\* set of names ExportDBC reads, and it is made of one column per scalar
\* field and, per Loc group, 16 locale text columns in the fixed order
\* followed by <field>_flags; and when import has written a record, each
\* column holds the value given for it and export reads, for every field
\* slot, the value import was given for that slot.
C22_ImportAndExportAgreeOnColumns ==
  (schemaPc = "done" /\ KnownKindsOnly) =>
    /\ ~ddlError
    /\ ddlColumns = insertColumns
    /\ Range(ddlColumns) = readColumns
    /\ ddlColumns = ColumnsOfSchema
    /\ [k \in 1..Len(ddlTypes) |-> ddlTypes[k] = "TEXT"] = TextOfSchema
    /\ importedRow.written =>
         /\ \A k \in 1..Len(insertColumns) :
              importedRow.cells[insertColumns[k]] = insertValues[k]
         /\ reExported.done
         /\ \A q \in 1..Len(ExpandFields(schema)) : ReadsBack(ExpandFields(schema)[q])

\* A record with a string and a twice repeated Loc field went through
\* import and export.
C22_Witness ==
  /\ schemaPc = "done"
  /\ KnownKindsOnly
  /\ importedRow.written
  /\ reExported.done
  /\ \E i, j \in 1..Len(schema) :
       /\ schema[i].type = "Loc" /\ schema[i].count = 2
       /\ schema[j].type = "string" /\ schema[j].count < 2
  /\ Len(ddlColumns) = 35
  /\ C22_ImportAndExportAgreeOnColumns

====
